---- MODULE Spec2Model ----
(***************************************************************************)
(* Native-ad asset negotiation of src/src/native.js: request-schema        *)
(* validation, bid conformance and targeting-key construction.             *)
(*                                                                         *)
(* JavaScript values are tagged records.  A call's outcome is a JavaScript *)
(* value or Thrown (a TypeError escaped the call).                         *)
(***************************************************************************)
EXTENDS Integers, Sequences, FiniteSets, TLC

VARIABLES
  adUnits,   \* the auction's ad units, a sequence of ad-unit objects
  bid,       \* the bid object under processing (bid.native is mutable)
  ret,       \* the last call: [op, val, log]
  prev       \* the outcome of the getNativeTargeting call right before the last call

vars == <<adUnits, bid, ret, prev>>

----------------------------------------------------------------------------
(* JavaScript values *)

Undefined == [t |-> "undefined"]
Null == [t |-> "null"]
Thrown == [t |-> "throw"]
NaN == [t |-> "number", v |-> 0, nan |-> TRUE]
Bool(b) == [t |-> "boolean", v |-> b]
\* an integer number
Num(n) == [t |-> "number", v |-> n]
\* the non-integer number n + 0.5, n >= 0
Half(n) == [t |-> "number", v |-> n, frac |-> 5]
Str(s) == [t |-> "string", v |-> s]
\* an object: its own properties in insertion order
Obj(kv) == [t |-> "object", kv |-> kv]
Arr(e) == [t |-> "array", e |-> e]
\* an Array object that also carries own named properties
ArrWith(e, kv) == [t |-> "array", e |-> e, kv |-> kv]

IsNullish(v) == v.t \in {"undefined", "null"}
IsNaN(v) == v.t = "number" /\ "nan" \in DOMAIN v

Truthy(v) ==
  CASE v.t \in {"undefined", "null"} -> FALSE
    [] v.t = "boolean" -> v.v
    [] v.t = "number" -> ~IsNaN(v) /\ ~(v.v = 0 /\ "frac" \notin DOMAIN v)
    [] v.t = "string" -> v.v # ""
    [] OTHER -> TRUE

\* a === b for the primitives and the structurally compared objects of the model
StrictEq(a, b) == a = b /\ ~IsNaN(a)

Props(o) == IF "kv" \in DOMAIN o THEN o.kv ELSE <<>>

\* Object.keys(o)
Keys(o) == [i \in 1..Len(Props(o)) |-> Props(o)[i][1]]

\* o.hasOwnProperty(k)
HasOwn(o, k) == \E i \in 1..Len(Props(o)) : Props(o)[i][1] = k

\* o[k] for a value o that is neither null nor undefined
Get(o, k) ==
  IF HasOwn(o, k)
    THEN Props(o)[CHOOSE i \in 1..Len(Props(o)) : Props(o)[i][1] = k][2]
    ELSE Undefined

\* o[k] = v on an object: overwrite in place, or append a new own property
Put(o, k, v) ==
  IF HasOwn(o, k)
    THEN [o EXCEPT !.kv = [i \in 1..Len(o.kv) |->
                             IF o.kv[i][1] = k THEN <<k, v>> ELSE o.kv[i]]]
    ELSE [o EXCEPT !.kv = Append(o.kv, <<k, v>>)]

\* delete o[k]
Delete(o, k) == [o EXCEPT !.kv = SelectSeq(o.kv, LAMBDA p : p[1] # k)]

\* {...a, ...b}: a's properties, b's overwriting in place or appended
RECURSIVE Spread(_, _)
Spread(a, kv) ==
  IF kv = <<>> THEN a ELSE Spread(Put(a, Head(kv)[1], Head(kv)[2]), Tail(kv))

----------------------------------------------------------------------------
(* Strings as character sequences: what String(x) and indexOf compute *)

Spelling ==
  [image |-> <<"i","m","a","g","e">>,
   im |-> <<"i","m">>,
   unknown |-> <<"u","n","k","n","o","w","n">>,
   title |-> <<"t","i","t","l","e">>,
   body |-> <<"b","o","d","y">>,
   body2 |-> <<"b","o","d","y","2">>,
   icon |-> <<"i","c","o","n">>,
   clickUrl |-> <<"c","l","i","c","k","U","r","l">>,
   sponsoredBy |-> <<"s","p","o","n","s","o","r","e","d","B","y">>,
   ortb2 |-> <<"o","r","t","b","2">>,
   ext |-> <<"e","x","t">>,
   foo |-> <<"f","o","o">>,
   zzz |-> <<"z","z","z">>,
   rendererUrl |-> <<"r","e","n","d","e","r","e","r","U","r","l">>,
   adTemplate |-> <<"a","d","T","e","m","p","l","a","t","e">>,
   sendTargetingKeys |-> <<"s","e","n","d","T","a","r","g","e","t","i","n","g","K","e","y","s">>,
   undefined |-> <<"u","n","d","e","f","i","n","e","d">>]

Chars(s) ==
  CASE s = "" -> <<>>
    [] s = "1" -> <<"1">>
    [] OTHER -> Spelling[s]

Digit(d) == <<"0","1","2","3","4","5","6","7","8","9">>[d + 1]

RECURSIVE NatToStr(_)
NatToStr(n) == IF n < 10 THEN <<Digit(n)>> ELSE NatToStr(n \div 10) \o <<Digit(n % 10)>>

\* String(v) for the primitives that reach a string conversion
ToStr(v) ==
  CASE v.t = "string" -> Chars(v.v)
    [] v.t = "number" /\ "nan" \in DOMAIN v -> <<"N","a","N">>
    [] v.t = "number" /\ v.v < 0 -> <<"-">> \o NatToStr(-v.v)
    [] v.t = "number" /\ "frac" \in DOMAIN v -> NatToStr(v.v) \o <<".", Digit(v.frac)>>
    [] v.t = "number" -> NatToStr(v.v)
    [] OTHER -> Chars(v.t)

\* String(array): the elements' strings joined by ",", null and undefined as ""
RECURSIVE Join(_)
Join(e) ==
  IF e = <<>> THEN <<>>
  ELSE (IF IsNullish(Head(e)) THEN <<>> ELSE ToStr(Head(e)))
       \o (IF Len(e) > 1 THEN <<",">> \o Join(Tail(e)) ELSE <<>>)

\* haystack.indexOf(needle) !== -1
Contains(hay, needle) ==
  \E i \in 1..(Len(hay) + 1) :
    /\ i + Len(needle) - 1 <= Len(hay)
    /\ SubSeq(hay, i, i + Len(needle) - 1) = needle

StrArr(names) == [i \in 1..Len(names) |-> Str(names[i])]

----------------------------------------------------------------------------
(* Helpers imported by native.js *)

\* utils.deepAccess (dlv): walk the path, undefined below any falsy value
RECURSIVE deepAccess(_, _)
deepAccess(obj, path) ==
  IF path = <<>> THEN obj
  ELSE deepAccess(IF Truthy(obj) THEN Get(obj, Head(path)) ELSE Undefined, Tail(path))

\* utils.isNumber: the value's class is Number (NaN included)
isNumber(v) == v.t = "number"

\* utils.isPlainObject: the value's class is Object
isPlainObject(v) == v.t = "object"

\* Array.isArray
isArray(v) == v.t = "array"

\* includes(list, x) as imported on line 2: String.prototype.includes unbound,
\* so the list is converted with String(list) and x with String(x)
includes(list, x) == Contains(Join(list), ToStr(x))

DigitVal(c) == CHOOSE d \in 0..9 : Digit(d) = c
IsDigit(c) == \E d \in 0..9 : Digit(d) = c

RECURSIVE ParseDigits(_, _, _)
ParseDigits(cs, acc, seen) ==
  IF cs # <<>> /\ IsDigit(Head(cs))
    THEN ParseDigits(Tail(cs), 10 * acc + DigitVal(Head(cs)), TRUE)
    ELSE IF seen THEN Num(acc) ELSE NaN

\* parseInt(v, 10): String(v), then an optional sign and the leading digits
parseInt(v) ==
  LET cs == ToStr(v) IN
  IF cs # <<>> /\ Head(cs) = "-"
    THEN LET m == ParseDigits(Tail(cs), 0, FALSE)
         IN  IF IsNaN(m) THEN NaN ELSE Num(-m.v)
    ELSE ParseDigits(cs, 0, FALSE)

\* a call's outcome and the diagnostics (logError) it emitted, in order
Outcome(val, diag) == [val |-> val, log |-> diag]

----------------------------------------------------------------------------
(* Schema validator *)

Required(b) == Obj(<< <<"required", Bool(b)>> >>)

IMAGE ==
  Obj(<<
    <<"ortb2", Obj(<<
       <<"ver", Str("1.2")>>,
       <<"assets", Arr(<<
          Obj(<< <<"required", Num(1)>>, <<"id", Num(1)>>,
                 <<"img", Obj(<< <<"type", Num(3)>>, <<"wmin", Num(100)>>, <<"hmin", Num(100)>> >>)>> >>),
          Obj(<< <<"required", Num(1)>>, <<"id", Num(2)>>,
                 <<"title", Obj(<< <<"len", Num(140)>> >>)>> >>),
          Obj(<< <<"required", Num(1)>>, <<"id", Num(3)>>,
                 <<"data", Obj(<< <<"type", Num(1)>> >>)>> >>),
          Obj(<< <<"required", Num(0)>>, <<"id", Num(4)>>,
                 <<"data", Obj(<< <<"type", Num(2)>> >>)>> >>),
          Obj(<< <<"required", Num(0)>>, <<"id", Num(5)>>,
                 <<"img", Obj(<< <<"type", Num(1)>>, <<"wmin", Num(20)>>, <<"hmin", Num(20)>> >>)>> >>)
        >>)>> >>)>>,
    <<"image", Required(TRUE)>>,
    <<"title", Required(TRUE)>>,
    <<"sponsoredBy", Required(TRUE)>>,
    <<"clickUrl", Required(TRUE)>>,
    <<"body", Required(FALSE)>>,
    <<"icon", Required(FALSE)>> >>)

SUPPORTED_TYPES == Obj(<< <<"image", IMAGE>> >>)

\* mutant: an asset of none of the four types is rejected instead of accepted
isOpenRTBAssetValid_RejectsUntyped(asset) ==
  IF ~isPlainObject(asset) THEN Outcome(Bool(FALSE), <<"asset must be an object">>)
  ELSE IF Truthy(Get(asset, "img")) THEN
    Outcome(Bool(/\ isNumber(Get(Get(asset, "img"), "w")) \/ isNumber(Get(Get(asset, "img"), "wmin"))
                 /\ isNumber(Get(Get(asset, "img"), "h")) \/ isNumber(Get(Get(asset, "img"), "hmin"))),
            <<>>)
  ELSE IF Truthy(Get(asset, "title")) THEN Outcome(Bool(isNumber(Get(Get(asset, "title"), "len"))), <<>>)
  ELSE IF Truthy(Get(asset, "data")) THEN Outcome(Bool(isNumber(Get(Get(asset, "data"), "type"))), <<>>)
  ELSE IF Truthy(Get(asset, "video")) THEN
    Outcome(Bool(/\ isArray(Get(Get(asset, "video"), "mimes"))
                 /\ isArray(Get(Get(asset, "video"), "protocols"))
                 /\ isNumber(Get(Get(asset, "video"), "minduration"))
                 /\ isNumber(Get(Get(asset, "video"), "maxduration"))), <<>>)
  ELSE Outcome(Bool(FALSE), <<"unknown asset type">>)

isOpenRTBAssetValid(asset) ==
  IF ~isPlainObject(asset) THEN Outcome(Bool(FALSE), <<"asset must be an object">>)
  ELSE IF Truthy(Get(asset, "img")) THEN
    LET img == Get(asset, "img") IN
    IF ~isNumber(Get(img, "w")) /\ ~isNumber(Get(img, "wmin"))
      THEN Outcome(Bool(FALSE), <<"img needs w or wmin">>)
    ELSE IF ~isNumber(Get(img, "h")) /\ ~isNumber(Get(img, "hmin"))
      THEN Outcome(Bool(FALSE), <<"img needs h or hmin">>)
    ELSE Outcome(Bool(TRUE), <<>>)
  ELSE IF Truthy(Get(asset, "title")) THEN
    IF ~isNumber(Get(Get(asset, "title"), "len"))
      THEN Outcome(Bool(FALSE), <<"title needs len">>)
      ELSE Outcome(Bool(TRUE), <<>>)
  ELSE IF Truthy(Get(asset, "data")) THEN
    IF ~isNumber(Get(Get(asset, "data"), "type"))
      THEN Outcome(Bool(FALSE), <<"data type must be a number">>)
      ELSE Outcome(Bool(TRUE), <<>>)
  ELSE IF Truthy(Get(asset, "video")) THEN
    LET video == Get(asset, "video") IN
    IF \/ ~isArray(Get(video, "mimes")) \/ ~isArray(Get(video, "protocols"))
       \/ ~isNumber(Get(video, "minduration")) \/ ~isNumber(Get(video, "maxduration"))
      THEN Outcome(Bool(FALSE), <<"video asset is not properly configured">>)
      ELSE Outcome(Bool(TRUE), <<>>)
  ELSE Outcome(Bool(TRUE), <<>>)

\* assets.every(isOpenRTBAssetValid): stops at the first asset that fails
RECURSIVE EveryAssetValid(_)
EveryAssetValid(assets) ==
  IF assets = <<>> THEN Outcome(Bool(TRUE), <<>>)
  ELSE LET r == isOpenRTBAssetValid(Head(assets)) IN
       IF r.val.v THEN EveryAssetValid(Tail(assets)) ELSE r

isOpenRTBBidRequestValid(ortb2) ==
  IF IsNullish(ortb2) THEN Outcome(Thrown, <<>>)
  ELSE LET assets == Get(ortb2, "assets") IN
  IF ~isArray(assets) \/ Len(assets.e) = 0
    THEN Outcome(Bool(FALSE), <<"assets is not an array, or it's empty">>)
  ELSE IF \E i \in 1..Len(assets.e) : IsNullish(assets.e[i])
    THEN Outcome(Thrown, <<>>)
  ELSE LET ids == [i \in 1..Len(assets.e) |-> Get(assets.e[i], "id")] IN
  IF \/ Len(assets.e) # Cardinality({ids[i] : i \in 1..Len(ids)})
     \/ \E i \in 1..Len(ids) : ~StrictEq(ids[i], parseInt(ids[i]))
    THEN Outcome(Bool(FALSE), <<"asset ids must exist, be unique and be integers">>)
  ELSE IF HasOwn(ortb2, "eventtrackers") /\ ~isArray(Get(ortb2, "eventtrackers"))
    THEN Outcome(Bool(FALSE), <<"eventtrackers is not an array">>)
  ELSE EveryAssetValid(assets.e)

typeIsSupported(type) ==
  IF ~(Truthy(type) /\ includes(StrArr(Keys(SUPPORTED_TYPES)), type))
    THEN Outcome(Bool(FALSE), <<"nativeParam is not supported">>)
    ELSE Outcome(Bool(TRUE), <<>>)

\* mutant: an unsupported type discards the params instead of passing them on
processNativeAdUnitParams_DropsUnsupported(params) ==
  LET type == IF Truthy(params) THEN Get(params, "type") ELSE Undefined
      sup == IF Truthy(type) THEN typeIsSupported(type) ELSE Outcome(Bool(TRUE), <<>>)
  IN  IF ~sup.val.v THEN Outcome(Undefined, sup.log)
      ELSE IF Truthy(type) THEN Outcome(Get(SUPPORTED_TYPES, type.v), <<>>)
      ELSE Outcome(params, <<>>)

processNativeAdUnitParams(params) ==
  LET type == IF Truthy(params) THEN Get(params, "type") ELSE Undefined
      sup == IF Truthy(type) THEN typeIsSupported(type) ELSE Outcome(Bool(FALSE), <<>>)
      p == IF sup.val.v THEN Get(SUPPORTED_TYPES, type.v) ELSE params
  IN  IF Truthy(p) /\ Truthy(Get(p, "ortb2"))
        THEN LET ok == isOpenRTBBidRequestValid(Get(p, "ortb2")) IN
             IF ok.val = Thrown THEN Outcome(Thrown, sup.log \o ok.log)
             ELSE IF ~ok.val.v THEN Outcome(Undefined, sup.log \o ok.log)
             ELSE Outcome(p, sup.log \o ok.log)
        ELSE Outcome(p, sup.log)

\* adUnits.forEach(...) from index i on; a throw leaves the later ad units untouched
RECURSIVE DecorateFrom(_, _, _)
DecorateFrom(units, i, diag) ==
  IF i > Len(units) THEN [units |-> units, val |-> Undefined, log |-> diag]
  ELSE LET adUnit == units[i]
           own == Get(adUnit, "nativeParams")
           nativeParams == IF Truthy(own) THEN own
                           ELSE deepAccess(adUnit, <<"mediaTypes", "native">>)
       IN  IF ~Truthy(nativeParams) THEN DecorateFrom(units, i + 1, diag)
           ELSE LET r == processNativeAdUnitParams(nativeParams) IN
                IF r.val = Thrown
                  THEN [units |-> units, val |-> Thrown, log |-> diag \o r.log]
                  ELSE DecorateFrom([units EXCEPT ![i] = Put(adUnit, "nativeParams", r.val)],
                                    i + 1, diag \o r.log)

decorateAdUnitsWithNativeParams(units) == DecorateFrom(units, 1, <<>>)

----------------------------------------------------------------------------
(* Bid conformance checker *)

\* index.getAdUnit(bid): the ad unit the bid was made for, or undefined
getAdUnit(units, b) ==
  IF \E i \in 1..Len(units) : Get(units[i], "code") = Get(b, "adUnitCode")
    THEN units[CHOOSE i \in 1..Len(units) : Get(units[i], "code") = Get(b, "adUnitCode")]
    ELSE Undefined

\* requiredAssetIds.every(assetId => includes(returnedAssetIds, assetId))
EveryIncluded(required, returned) ==
  \A i \in 1..Len(required) : includes(returned, required[i])

isNativeOpenRTBBidValid(bidORTB, bidRequestORTB) ==
  IF ~Truthy(deepAccess(bidORTB, <<"link", "url">>))
    THEN Outcome(Bool(FALSE), <<"native response doesn't have 'link' property">>)
  ELSE LET reqAssets == Get(bidRequestORTB, "assets")
           resAssets == Get(bidORTB, "assets")
       IN
  IF ~isArray(reqAssets) \/ \E i \in 1..Len(reqAssets.e) : IsNullish(reqAssets.e[i])
    THEN Outcome(Thrown, <<>>)
  ELSE IF ~isArray(resAssets) \/ \E i \in 1..Len(resAssets.e) : IsNullish(resAssets.e[i])
    THEN Outcome(Thrown, <<>>)
  ELSE LET required == SelectSeq(reqAssets.e, LAMBDA a : StrictEq(Get(a, "required"), Num(1)))
           requiredAssetIds == [i \in 1..Len(required) |-> Get(required[i], "id")]
           returnedAssetIds == [i \in 1..Len(resAssets.e) |-> Get(resAssets.e[i], "id")]
           match == EveryIncluded(requiredAssetIds, returnedAssetIds)
       IN  Outcome(Bool(match),
                   IF match THEN <<>> ELSE <<"didn't receive a bid with all required assets">>)

nativeBidIsValid(b, units) ==
  LET bidRequest == getAdUnit(units, b) IN
  IF ~Truthy(bidRequest) THEN Outcome(Bool(FALSE), <<>>)
  ELSE IF /\ Truthy(deepAccess(b, <<"native", "ortb2">>))
          /\ Truthy(deepAccess(bidRequest, <<"nativeParams", "ortb2">>))
    THEN isNativeOpenRTBBidValid(Get(Get(b, "native"), "ortb2"),
                                 Get(Get(bidRequest, "nativeParams"), "ortb2"))
  ELSE IF ~Truthy(deepAccess(b, <<"native", "clickUrl">>)) THEN Outcome(Bool(FALSE), <<>>)
  ELSE LET requestedAssets == Get(bidRequest, "nativeParams") IN
  IF ~Truthy(requestedAssets) THEN Outcome(Bool(TRUE), <<>>)
  ELSE IF \E i \in 1..Len(Keys(requestedAssets)) :
            IsNullish(Get(requestedAssets, Keys(requestedAssets)[i]))
    THEN Outcome(Thrown, <<>>)
  ELSE LET native == Get(b, "native")
           requiredAssets == SelectSeq(Keys(requestedAssets),
                               LAMBDA key : Truthy(Get(Get(requestedAssets, key), "required")))
           returnedAssets == SelectSeq(Keys(native), LAMBDA key : Truthy(Get(native, key)))
       IN  Outcome(Bool(EveryIncluded(StrArr(requiredAssets), StrArr(returnedAssets))), <<>>)

----------------------------------------------------------------------------
(* Key namespace builder and targeting builder *)

\* the well-known asset names and their targeting keys (constants.json)
NATIVE_KEYS ==
  Obj(<< <<"title", Str("hb_native_title")>>,
         <<"body", Str("hb_native_body")>>,
         <<"image", Str("hb_native_image")>>,
         <<"clickUrl", Str("hb_native_linkurl")>>,
         <<"rendererUrl", Str("hb_renderer_url")>>,
         <<"adTemplate", Str("hb_adTemplate")>> >>)

getAssetValue(value) ==
  IF value.t = "null" THEN Thrown
  ELSE IF value.t \in {"object", "array"} /\ Truthy(Get(value, "url")) THEN Get(value, "url")
  ELSE value

getNativeKeys(adUnit) ==
  LET ext == deepAccess(adUnit, <<"nativeParams", "ext">>)
      extraNativeKeys ==
        IF Truthy(ext)
          THEN [i \in 1..Len(Keys(ext)) |-> <<Keys(ext)[i], Str("hb_native_" \o Keys(ext)[i])>>]
          ELSE <<>>
  IN  Spread(NATIVE_KEYS, extraNativeKeys)

\* mutant: the flag is read at the top level only, without the ext fallback
AssetFlag_TopLevelOnly(adUnit, asset, flag) ==
  deepAccess(adUnit, <<"nativeParams", asset, flag>>)

\* the typeof-boolean fallback of lines 302-305 and 312-315
AssetFlag(adUnit, asset, flag) ==
  LET top == deepAccess(adUnit, <<"nativeParams", asset, flag>>) IN
  IF top.t = "boolean" THEN top
  ELSE deepAccess(adUnit, <<"nativeParams", "ext", asset, flag>>)

\* mutant: the placeholder is the bid id alone, without the targeting key
Placeholder_BidIdOnly(key, adId) ==
  Str(IF adId.t = "string" THEN adId.v ELSE adId.t)

\* `${key}:${bid.adId}`
Placeholder(key, adId) ==
  Str(key.v \o ":" \o (IF adId.t = "string" THEN adId.v ELSE adId.t))

\* the forEach of lines 294-322 over the remaining assets; a throw abandons the call
RECURSIVE TargetingLoop(_, _, _, _, _)
TargetingLoop(assets, b, adUnit, nativeKeys, keyValues) ==
  IF assets = <<>> THEN keyValues
  ELSE LET asset == Head(assets)
           key == Get(nativeKeys, asset)
           first == getAssetValue(Get(Get(b, "native"), asset))
           second == IF first # Thrown /\ ~Truthy(first)
                       THEN getAssetValue(deepAccess(b, <<"native", "ext", asset>>))
                       ELSE first
           value == second
       IN
  IF value = Thrown THEN Thrown
  ELSE IF asset = "adTemplate" \/ ~Truthy(key) \/ ~Truthy(value)
    THEN TargetingLoop(Tail(assets), b, adUnit, nativeKeys, keyValues)
  ELSE LET sendPlaceholder == AssetFlag(adUnit, asset, "sendId")
           out == IF Truthy(sendPlaceholder) THEN Placeholder(key, Get(b, "adId")) ELSE value
           assetSendTargetingKeys == AssetFlag(adUnit, asset, "sendTargetingKeys")
           globalSendTargetingKeys ==
             ~StrictEq(deepAccess(adUnit, <<"nativeParams", "sendTargetingKeys">>), Bool(FALSE))
           sendTargeting == IF assetSendTargetingKeys.t = "boolean"
                              THEN assetSendTargetingKeys.v ELSE globalSendTargetingKeys
       IN  TargetingLoop(Tail(assets), b, adUnit, nativeKeys,
                         IF sendTargeting THEN Put(keyValues, key.v, out) ELSE keyValues)

\* mutant: rendererUrl and adTemplate are written independently of each other
WriteRendering_Both(b, adUnit) ==
  LET native == Get(b, "native")
      r == Truthy(deepAccess(adUnit, <<"nativeParams", "rendererUrl">>))
      a == Truthy(deepAccess(adUnit, <<"nativeParams", "adTemplate">>))
      n1 == IF r THEN Put(native, "rendererUrl",
                          getAssetValue(Get(Get(adUnit, "nativeParams"), "rendererUrl")))
                 ELSE native
      n2 == IF a THEN Put(n1, "adTemplate",
                          getAssetValue(Get(Get(adUnit, "nativeParams"), "adTemplate")))
                 ELSE n1
  IN  IF ~r /\ ~a THEN b
      ELSE IF IsNullish(native) THEN Thrown
      ELSE Put(b, "native", n2)

\* lines 277-282: the ad unit's rendererUrl, else its adTemplate, is written onto bid.native
WriteRendering(b, adUnit) ==
  LET native == Get(b, "native") IN
  IF Truthy(deepAccess(adUnit, <<"nativeParams", "rendererUrl">>))
    THEN IF IsNullish(native) THEN Thrown
         ELSE Put(b, "native", Put(native, "rendererUrl",
                    getAssetValue(Get(Get(adUnit, "nativeParams"), "rendererUrl"))))
  ELSE IF Truthy(deepAccess(adUnit, <<"nativeParams", "adTemplate">>))
    THEN IF IsNullish(native) THEN Thrown
         ELSE Put(b, "native", Put(native, "adTemplate",
                    getAssetValue(Get(Get(adUnit, "nativeParams"), "adTemplate"))))
  ELSE b

\* mutant: the general pass reads bid.native before rendererUrl/adTemplate is written
getNativeTargeting_WritesLate(b, units) ==
  LET adUnit == getAdUnit(units, b)
      written == WriteRendering(b, adUnit)
  IN  IF written = Thrown THEN [val |-> Thrown, bid |-> b]
      ELSE IF IsNullish(Get(written, "native")) THEN [val |-> Thrown, bid |-> written]
      ELSE LET native == Get(b, "native")
               flatBidNativeKeys == Delete(Spread(native, Props(Get(native, "ext"))), "ext")
           IN  [val |-> TargetingLoop(Keys(flatBidNativeKeys), b, adUnit,
                                      getNativeKeys(adUnit), Obj(<<>>)),
                bid |-> written]

\* the call's outcome and the bid as the call leaves it
getNativeTargeting(b, units) ==
  LET adUnit == getAdUnit(units, b)
      written == WriteRendering(b, adUnit)
  IN  IF written = Thrown THEN [val |-> Thrown, bid |-> b]
      ELSE IF IsNullish(Get(written, "native")) THEN [val |-> Thrown, bid |-> written]
      ELSE LET native == Get(written, "native")
               ext == Get(native, "ext")
               flatBidNativeKeys == Delete(Spread(native, Props(ext)), "ext")
           IN  [val |-> TargetingLoop(Keys(flatBidNativeKeys), written, adUnit,
                                      getNativeKeys(adUnit), Obj(<<>>)),
                bid |-> written]

----------------------------------------------------------------------------
(* Bounds and input universes *)

\* longest assets array of a request schema under validation
MaxAssets == 2
\* most ad units handed to decorateAdUnitsWithNativeParams at once
MaxAdUnits == 2
\* most named entries of a legacy nativeParams object
MaxParams == 2
\* most returned assets of a legacy bid, beside clickUrl
MaxReturned == 2
\* longest assets array of an OpenRTB request or response under conformance
MaxIds == 2

SeqsUpTo(S, n) == UNION {[1..k -> S] : k \in 0..n}
\* the entries of q are pairwise distinct / have pairwise distinct first components
Distinct(q) == \A i, j \in 1..Len(q) : i # j => q[i] # q[j]
DistinctFirst(q) == \A i, j \in 1..Len(q) : i # j => q[i][1] # q[j][1]

Asset(id, kv) == Obj(<< <<"id", id>> >> \o kv)
ImgWH == << <<"img", Obj(<< <<"w", Num(300)>>, <<"h", Num(250)>> >>)>> >>
ImgMin == << <<"img", Obj(<< <<"wmin", Num(100)>>, <<"hmin", Num(100)>> >>)>> >>
ImgNoH == << <<"img", Obj(<< <<"w", Num(300)>> >>)>> >>
TitleLen == << <<"title", Obj(<< <<"len", Num(140)>> >>)>> >>
TitleStr == << <<"title", Obj(<< <<"len", Str("1")>> >>)>> >>
DataType == << <<"data", Obj(<< <<"type", Num(2)>> >>)>> >>
DataNone == << <<"data", Obj(<<>>)>> >>
VideoOk == << <<"video", Obj(<< <<"mimes", Arr(<<>>)>>, <<"protocols", Arr(<<>>)>>,
                               <<"minduration", Num(1)>>, <<"maxduration", Num(9)>> >>)>> >>
VideoBad == << <<"video", Obj(<< <<"mimes", Str("1")>>, <<"protocols", Arr(<<>>)>>,
                                <<"minduration", Num(1)>>, <<"maxduration", Num(9)>> >>)>> >>

\* assets combined into arrays of up to MaxAssets entries
CoreAssets ==
  { Asset(Num(1), ImgWH), Asset(Num(2), TitleLen), Asset(Num(0), <<>>),
    Asset(Num(1), VideoOk), Asset(Num(2), DataNone), Null }

\* assets validated alone
SingleAssets ==
  { Asset(Num(2), ImgMin), Asset(Num(2), ImgNoH), Asset(Num(2), TitleStr),
    Asset(Num(2), DataType), Asset(Num(1), VideoBad), Asset(Num(2), ImgMin \o TitleStr),
    Asset(Num(1), << <<"img", Obj(<< <<"h", Num(250)>> >>)>> >>),
    Obj(<<>>), Asset(Str("1"), <<>>), Asset(Half(1), <<>>), Asset(Num(-1), <<>>),
    ArrWith(<<>>, << <<"id", Num(3)>> >>) }

SchemaRequests ==
  { Obj(<< <<"assets", Arr(a)>> >> \o et) :
      a \in SeqsUpTo(CoreAssets, MaxAssets) \cup { <<x>> : x \in SingleAssets },
      et \in { <<>>, << <<"eventtrackers", Arr(<<>>)>> >>, << <<"eventtrackers", Num(1)>> >> } }
  \cup { Obj(<<>>), Obj(<< <<"assets", Obj(<<>>)>> >>) }

GoodRequest == Obj(<< <<"assets", Arr(<< Asset(Num(1), TitleLen) >>)>> >>)
BadRequest == Obj(<< <<"assets", Arr(<<>>)>> >>)

SchemaParams ==
  { Obj(<< <<"ortb2", r>> >>) : r \in SchemaRequests }
  \cup { Obj(<< <<"type", Str(ty)>> >> \o rest) :
           ty \in {"image", "im", "unknown", ""},
           rest \in { <<>>, << <<"title", Required(TRUE)>> >>,
                      << <<"ortb2", GoodRequest>> >>, << <<"ortb2", BadRequest>> >> } }
  \cup { Obj(<< <<"title", Required(TRUE)>> >>) }

\* an ad unit that declares its native params directly, or under mediaTypes.native
AdUnit(np) == Obj(<< <<"code", Str("u1")>>, <<"nativeParams", np>> >>)
AdUnitMT(np) == Obj(<< <<"code", Str("u1")>>,
                       <<"mediaTypes", Obj(<< <<"native", np>> >>)>> >>)

FewAdUnits ==
  { Obj(<< <<"code", Str("u1")>> >>),
    AdUnit(Obj(<< <<"type", Str("image")>> >>)),
    AdUnitMT(Obj(<< <<"type", Str("unknown")>> >>)),
    AdUnit(Obj(<< <<"ortb2", BadRequest>> >>)),
    AdUnitMT(Obj(<< <<"ortb2", Obj(<< <<"assets", Arr(<<Null>>)>> >>)>> >>)) }

PlainBid ==
  Obj(<< <<"adUnitCode", Str("u1")>>, <<"adId", Str("b1")>>,
         <<"native", Obj(<< <<"clickUrl", Str("https://x")>>, <<"title", Str("T")>> >>)>> >>)

NoCall == [op |-> "none", arg |-> Undefined, val |-> Undefined, log |-> <<>>]
NoTargeting == [t |-> "none"]

LegacyNames == {"title", "body", "body2"}

\* legacy nativeParams: up to MaxParams named entries, each required or optional
LegacyParams ==
  { Obj([i \in 1..Len(q) |-> <<q[i][1], Required(q[i][2])>>]) :
      q \in { x \in SeqsUpTo(LegacyNames \X BOOLEAN, MaxParams) :
                DistinctFirst(x) } }
  \cup { Obj(<< <<"title", Null>> >>),
         Obj(<< <<"sendTargetingKeys", Bool(FALSE)>>, <<"body", Required(TRUE)>> >>) }

\* legacy bid.native: an optional clickUrl, then up to MaxReturned assets
LegacyNatives ==
  { Obj(c \o [i \in 1..Len(q) |-> <<q[i][1], Str(q[i][2])>>]) :
      c \in { <<>>, << <<"clickUrl", Str("")>> >>, << <<"clickUrl", Str("https://x")>> >> },
      q \in { x \in SeqsUpTo(LegacyNames \X {"T", ""}, MaxReturned) :
                DistinctFirst(x) } }

OrtbIds == {1, 2, 12}

\* OpenRTB nativeParams as validation leaves them: distinct integer ids
OrtbRequests ==
  { Obj(<< <<"assets", Arr([i \in 1..Len(q) |->
              Obj(<< <<"id", Num(q[i][1])>>, <<"required", Num(q[i][2])>> >>)])>> >>) :
      q \in { x \in SeqsUpTo(OrtbIds \X {0, 1}, MaxIds) :
                Len(x) > 0 /\ DistinctFirst(x) } }

OrtbResponses ==
  { Obj(l \o a) :
      l \in { <<>>, << <<"link", Obj(<< <<"url", Str("")>> >>)>> >>,
              << <<"link", Obj(<< <<"url", Str("https://x")>> >>)>> >> },
      a \in { <<>> } \cup
            { << <<"assets", Arr([i \in 1..Len(q) |-> Obj(<< <<"id", Num(q[i])>> >>)])>> >> :
                q \in { x \in SeqsUpTo(OrtbIds, MaxIds) : Distinct(x) } } }

BidWith(native) ==
  Obj(<< <<"adUnitCode", Str("u1")>>, <<"adId", Str("b1")>>, <<"native", native>> >>)

\* nativeParams of the targeting builder: rendering, the global flag, the per-asset
\* flags of title at the top level, and the ext sub-schema
TargetingParams ==
  { Obj(r \o g \o ti \o x) :
      r \in { <<>>,
              << <<"rendererUrl", Obj(<< <<"url", Str("RU")>>, <<"sendId", Bool(TRUE)>> >>)>> >>,
              << <<"adTemplate", Str("TPL")>> >>,
              << <<"rendererUrl", Str("R")>>, <<"adTemplate", Str("TPL")>> >>,
              << <<"rendererUrl", Str("")>>, <<"adTemplate", Str("TPL")>> >> },
      g \in { <<>>, << <<"sendTargetingKeys", Bool(FALSE)>> >> },
      ti \in { <<>>,
               << <<"title", Obj(<< <<"sendId", Bool(TRUE)>>,
                                    <<"sendTargetingKeys", Bool(TRUE)>> >>)>> >>,
               << <<"title", Obj(<< <<"sendId", Bool(FALSE)>>,
                                    <<"sendTargetingKeys", Bool(FALSE)>> >>)>> >> },
      x \in { <<>>,
              << <<"ext", Obj(<< <<"foo", Obj(<< <<"sendId", Bool(TRUE)>> >>)>> >>)>> >>,
              << <<"ext", Obj(<< <<"foo", Obj(<< <<"sendTargetingKeys", Bool(FALSE)>> >>)>> >>)>> >>,
              << <<"ext", Obj(<< <<"title", Obj(<< <<"sendId", Bool(TRUE)>>,
                                                   <<"sendTargetingKeys", Bool(TRUE)>> >>)>>,
                                 <<"foo", Obj(<<>>)>> >>)>> >> } }

\* bid.native of the targeting builder: title, vendor assets under ext, and one more key
TargetingNatives ==
  { Obj(ti \o x \o m) :
      ti \in { <<>>, << <<"title", Str("T")>> >>, << <<"title", Str("")>> >>,
               << <<"title", Obj(<< <<"url", Str("TU")>> >>)>> >> },
      x \in { <<>>, << <<"ext", Obj(<< <<"foo", Str("F")>> >>)>> >>,
              << <<"ext", Obj(<< <<"title", Str("ET")>> >>)>> >> },
      m \in { <<>>, << <<"adTemplate", Str("BT")>> >>, << <<"zzz", Str("Z")>> >>,
              << <<"body", Null>> >> } }

InitTargeting ==
  /\ adUnits \in { <<AdUnit(np)>> : np \in TargetingParams }
  /\ bid \in { BidWith(n) : n \in TargetingNatives } \cup { Obj(<< <<"adUnitCode", Str("u1")>> >>) }
  /\ ret = NoCall
  /\ prev = NoTargeting

InitBid ==
  /\ \/ /\ adUnits \in { <<AdUnit(np)>> : np \in LegacyParams }
                       \cup { << Obj(<< <<"code", Str("u1")>> >>) >>, <<>> }
        /\ bid \in { BidWith(n) : n \in LegacyNatives }
                   \cup { Obj(<< <<"adUnitCode", Str("u1")>> >>) }
     \/ /\ adUnits \in { <<AdUnit(Obj(<< <<"ortb2", r>> >>))>> : r \in OrtbRequests }
        /\ bid \in { BidWith(Obj(<< <<"ortb2", r>> >>)) : r \in OrtbResponses }
     \/ /\ adUnits \in { <<AdUnit(Obj(<< <<"ortb2", GoodRequest>>, <<"title", Required(TRUE)>> >>))>>,
                         <<AdUnit(Obj(<< <<"title", Required(TRUE)>> >>))>> }
        /\ bid \in { BidWith(Obj(<< <<"ortb2", r>> >> \o rest)) :
                       r \in { Obj(<< <<"link", Obj(<< <<"url", Str("https://x")>> >>)>>,
                                      <<"assets", Arr(<< Obj(<< <<"id", Num(1)>> >>) >>)>> >>) },
                       rest \in { <<>>, << <<"clickUrl", Str("https://x")>> >>,
                                  << <<"clickUrl", Str("https://x")>>, <<"title", Str("T")>> >> } }
                   \cup { BidWith(Obj(<< <<"clickUrl", Str("https://x")>>, <<"title", Str("T")>> >>)) }
  /\ ret = NoCall
  /\ prev = NoTargeting

InitSchema ==
  /\ adUnits \in { <<AdUnit(p)>> : p \in SchemaParams }
                 \cup SeqsUpTo(FewAdUnits, MaxAdUnits)
  /\ bid = PlainBid
  /\ ret = NoCall
  /\ prev = NoTargeting

----------------------------------------------------------------------------
(* Operations *)

\* the params decorateAdUnitsWithNativeParams would hand on for this ad unit
DeclaredParams(adUnit) ==
  IF Truthy(Get(adUnit, "nativeParams")) THEN Get(adUnit, "nativeParams")
  ELSE deepAccess(adUnit, <<"mediaTypes", "native">>)

DecorateAdUnits ==
  LET r == decorateAdUnitsWithNativeParams(adUnits) IN
  /\ adUnits' = r.units
  /\ ret' = [op |-> "decorateAdUnitsWithNativeParams", arg |-> Arr(adUnits),
             val |-> r.val, log |-> r.log]
  /\ prev' = NoTargeting
  /\ UNCHANGED bid

ProcessParams ==
  \E i \in 1..Len(adUnits) :
    LET params == DeclaredParams(adUnits[i])
        r == processNativeAdUnitParams(params)
    IN  /\ ret' = [op |-> "processNativeAdUnitParams", arg |-> params,
                   val |-> r.val, log |-> r.log]
        /\ prev' = NoTargeting
        /\ UNCHANGED <<adUnits, bid>>

ValidateRequest ==
  \E i \in 1..Len(adUnits) :
    LET ortb2 == deepAccess(DeclaredParams(adUnits[i]), <<"ortb2">>)
        r == isOpenRTBBidRequestValid(ortb2)
    IN  /\ Truthy(ortb2)
        /\ ret' = [op |-> "isOpenRTBBidRequestValid", arg |-> ortb2,
                   val |-> r.val, log |-> r.log]
        /\ prev' = NoTargeting
        /\ UNCHANGED <<adUnits, bid>>

NativeBidIsValid ==
  LET r == nativeBidIsValid(bid, adUnits) IN
  /\ ret' = [op |-> "nativeBidIsValid", arg |-> bid, val |-> r.val, log |-> r.log]
  /\ prev' = NoTargeting
  /\ UNCHANGED <<adUnits, bid>>

GetNativeTargeting ==
  LET r == getNativeTargeting(bid, adUnits) IN
  /\ bid' = r.bid
  /\ ret' = [op |-> "getNativeTargeting", arg |-> bid, val |-> r.val, log |-> <<>>]
  /\ prev' = IF ret.op = "getNativeTargeting" THEN ret.val ELSE NoTargeting
  /\ UNCHANGED adUnits

Next ==
  \/ DecorateAdUnits
  \/ ProcessParams
  \/ ValidateRequest
  \/ NativeBidIsValid
  \/ GetNativeTargeting

SpecSchema == InitSchema /\ [][Next]_vars

\* ad units are decorated, then bids are validated against them
NextBid ==
  \/ DecorateAdUnits
  \/ NativeBidIsValid

SpecBid == InitBid /\ [][NextBid]_vars

\* the auction validates a bid against its ad unit and then builds its targeting
NextTargeting ==
  \/ NativeBidIsValid
  \/ GetNativeTargeting

SpecTargeting == InitTargeting /\ [][NextTargeting]_vars

----------------------------------------------------------------------------
(* Claims on the schema validator *)

IsNonNegInt(v) == v.t = "number" /\ DOMAIN v = {"t", "v"} /\ v.v >= 0

\* the per-type shape rule of each type an asset carries
ShapeRules(a) ==
  LET img == Get(a, "img")
      title == Get(a, "title")
      data == Get(a, "data")
      video == Get(a, "video")
  IN  /\ Truthy(img) => /\ isNumber(Get(img, "w")) \/ isNumber(Get(img, "wmin"))
                        /\ isNumber(Get(img, "h")) \/ isNumber(Get(img, "hmin"))
      /\ Truthy(title) => isNumber(Get(title, "len"))
      /\ Truthy(data) => isNumber(Get(data, "type"))
      /\ Truthy(video) => /\ isArray(Get(video, "mimes")) /\ isArray(Get(video, "protocols"))
                          /\ isNumber(Get(video, "minduration"))
                          /\ isNumber(Get(video, "maxduration"))

\* ids pairwise distinct non-negative integers, every asset within its shape rule
WellFormedAssets(ortb2) ==
  LET assets == Get(ortb2, "assets") IN
  /\ isArray(assets)
  /\ \A i \in 1..Len(assets.e) :
       /\ ~IsNullish(assets.e[i])
       /\ IsNonNegInt(Get(assets.e[i], "id"))
       /\ ShapeRules(assets.e[i])
  /\ \A i, j \in 1..Len(assets.e) :
       i # j => Get(assets.e[i], "id") # Get(assets.e[j], "id")

\* C3 as stated: every request whose asset ids are pairwise distinct non-negative
\* integers and whose assets all satisfy their shape rules is accepted by
\* isOpenRTBBidRequestValid.
C3_AsStated ==
  (ret.op = "isOpenRTBBidRequestValid" /\ WellFormedAssets(ret.arg))
    => ret.val = Bool(TRUE)

\* C3 amended: such a request is accepted when, in addition, the assets array is
\* non-empty, every asset is a plain object, and eventtrackers is absent or an array.
C3_WellFormedRequestAccepted ==
  ( /\ ret.op = "isOpenRTBBidRequestValid"
    /\ WellFormedAssets(ret.arg)
    /\ Len(Get(ret.arg, "assets").e) > 0
    /\ \A i \in 1..Len(Get(ret.arg, "assets").e) : Get(ret.arg, "assets").e[i].t = "object"
    /\ HasOwn(ret.arg, "eventtrackers") => isArray(Get(ret.arg, "eventtrackers")) )
    => ret.val = Bool(TRUE) /\ ret.log = <<>>

\* C3 witness: a request of two well-formed assets with an eventtrackers array was accepted
C3_Witness ==
  /\ ret.op = "isOpenRTBBidRequestValid"
  /\ WellFormedAssets(ret.arg)
  /\ Len(Get(ret.arg, "assets").e) = 2
  /\ HasOwn(ret.arg, "eventtrackers")
  /\ ret.val = Bool(TRUE)

UnsupportedDiag == "nativeParam is not supported"
Emitted(diag, msg) == \E i \in 1..Len(diag) : diag[i] = msg

\* the params name a preset type that is not a key of SUPPORTED_TYPES
NamesUnknownType(params) ==
  /\ params.t = "object"
  /\ Truthy(Get(params, "type"))
  /\ ~HasOwn(SUPPORTED_TYPES, Get(params, "type").v)

\* C4: for params whose type is not a key of the supported-types table,
\* processNativeAdUnitParams substitutes no preset and returns the input params
\* unchanged (stated for params that carry no ortb2 schema, which validation
\* could reject).
C4_UnknownTypeReturnedUnchanged ==
  ( /\ ret.op = "processNativeAdUnitParams"
    /\ NamesUnknownType(ret.arg)
    /\ ~HasOwn(ret.arg, "ortb2") )
    => ret.val = ret.arg

PassedOn(params) ==
  IF Truthy(Get(params, "ortb2")) /\ isOpenRTBBidRequestValid(Get(params, "ortb2")).val # Bool(TRUE)
    THEN {Undefined, Thrown}
    ELSE {params}

C6_NoCallThrows ==
  ret.op \in {"processNativeAdUnitParams", "isOpenRTBBidRequestValid",
              "nativeBidIsValid", "getNativeTargeting"}
    => ret.val # Thrown

----------------------------------------------------------------------------
(* Claims on the bid conformance checker *)

\* the ids of the request assets marked required = 1, and the ids the response returns
RequiredIds(req) ==
  { Get(Get(req, "assets").e[i], "id") :
      i \in { j \in 1..Len(Get(req, "assets").e) :
                Get(Get(req, "assets").e[j], "required") = Num(1) } }
ReturnedIds(res) ==
  { Get(Get(res, "assets").e[i], "id") : i \in 1..Len(Get(res, "assets").e) }

BothOrtb(b, adUnit) ==
  /\ Truthy(deepAccess(b, <<"native", "ortb2">>))
  /\ Truthy(deepAccess(adUnit, <<"nativeParams", "ortb2">>))

\* C1: with the ad unit found and ortb2 on both sides, nativeBidIsValid returns true
\* exactly when the response has a non-empty link.url and every id of a request asset
\* marked required = 1 is the id of some response asset (stated for responses that
\* carry an assets array).
C1_OrtbValidIffRequiredIdsReturned ==
  LET adUnit == getAdUnit(adUnits, ret.arg)
      res == deepAccess(ret.arg, <<"native", "ortb2">>)
      req == deepAccess(adUnit, <<"nativeParams", "ortb2">>)
  IN  ( /\ ret.op = "nativeBidIsValid"
        /\ Truthy(adUnit)
        /\ BothOrtb(ret.arg, adUnit)
        /\ isArray(Get(res, "assets")) /\ isArray(Get(req, "assets")) )
        => ret.val = Bool(/\ Truthy(deepAccess(res, <<"link", "url">>))
                          /\ RequiredIds(req) \subseteq ReturnedIds(res))

\* C2: on the legacy path nativeBidIsValid returns true exactly when bid.native.clickUrl
\* is truthy and either the ad unit has no nativeParams or every nativeParams key
\* whose entry has required = true is a key of bid.native with a truthy value
\* (stated for nativeParams whose entries are all objects or primitives, not null).
C2_LegacyValidIffRequiredKeysReturned ==
  LET adUnit == getAdUnit(adUnits, ret.arg)
      native == deepAccess(ret.arg, <<"native">>)
      np == deepAccess(adUnit, <<"nativeParams">>)
  IN  ( /\ ret.op = "nativeBidIsValid"
        /\ Truthy(adUnit)
        /\ ~BothOrtb(ret.arg, adUnit)
        /\ \A i \in 1..Len(Keys(np)) : ~IsNullish(Get(np, Keys(np)[i])) )
        => ret.val = Bool(/\ Truthy(deepAccess(native, <<"clickUrl">>))
                          /\ \/ ~Truthy(np)
                             \/ \A i \in 1..Len(Keys(np)) :
                                  Get(Get(np, Keys(np)[i]), "required") = Bool(TRUE)
                                    => Truthy(Get(native, Keys(np)[i])))

----------------------------------------------------------------------------
(* Claims on the targeting builder *)

\* an output map as a set of key/value pairs, whatever the insertion order
Pairs(o) == { o.kv[i] : i \in 1..Len(o.kv) }
KeySet(o) == { o.kv[i][1] : i \in 1..Len(o.kv) }

Returned == ret.op = "getNativeTargeting" /\ ret.val # Thrown

\* the ad unit of the last call and bid.native as the general pass read it
TheAdUnit == getAdUnit(adUnits, bid)
TheParams == deepAccess(TheAdUnit, <<"nativeParams">>)
TheNative == Get(bid, "native")

\* the response assets: top-level names other than ext, and the names nested under ext
ResponseAssets ==
  (KeySet(TheNative) \ {"ext"})
    \cup (IF Truthy(Get(TheNative, "ext")) THEN KeySet(Get(TheNative, "ext")) ELSE {})

\* the url of a {url, ...} object, otherwise the value itself
UrlOrScalar(v) == IF v.t = "object" /\ Truthy(Get(v, "url")) THEN Get(v, "url") ELSE v

\* an asset's resolved value: the top-level one, else the one nested under ext
ResolvedValue(asset) ==
  IF Truthy(UrlOrScalar(Get(TheNative, asset)))
    THEN UrlOrScalar(Get(TheNative, asset))
    ELSE UrlOrScalar(deepAccess(TheNative, <<"ext", asset>>))

\* an asset's targeting key: hb_native_<name> for a name declared under
\* nativeParams.ext, else its entry of the fixed table, else none
KeyOf(asset) ==
  IF Truthy(Get(TheParams, "ext")) /\ HasOwn(Get(TheParams, "ext"), asset)
    THEN Str("hb_native_" \o asset)
    ELSE Get(NATIVE_KEYS, asset)

\* a per-asset flag: nativeParams.<asset>.<flag> when it is a boolean, otherwise
\* nativeParams.ext.<asset>.<flag>
FlagOf(asset, flag) ==
  IF deepAccess(TheParams, <<asset, flag>>).t = "boolean"
    THEN deepAccess(TheParams, <<asset, flag>>)
    ELSE deepAccess(TheParams, <<"ext", asset, flag>>)

\* the resolved sendTargetingKeys flag of an asset
SendsTargeting(asset) ==
  IF FlagOf(asset, "sendTargetingKeys").t = "boolean"
    THEN FlagOf(asset, "sendTargetingKeys").v
    ELSE Get(TheParams, "sendTargetingKeys") # Bool(FALSE)

Eligible(asset) ==
  asset # "adTemplate" /\ Truthy(KeyOf(asset)) /\ Truthy(ResolvedValue(asset))

Emitted_(asset) == Eligible(asset) /\ SendsTargeting(asset)

\* C7: two getNativeTargeting calls in a row on the same bid return maps with exactly
\* the same keys and values, the second call reading what the first wrote on bid.native.
C7_TargetingIdempotent ==
  (ret.op = "getNativeTargeting" /\ prev # NoTargeting)
    => /\ (ret.val = Thrown) <=> (prev = Thrown)
       /\ ret.val # Thrown => Pairs(ret.val) = Pairs(prev)

\* C7 witness: a second call in a row returned a map that holds the rendererUrl the
\* first call wrote onto the bid
C7_Witness ==
  /\ Returned /\ prev # NoTargeting /\ prev # Thrown
  /\ HasOwn(ret.val, "hb_renderer_url")
  /\ HasOwn(ret.val, "hb_native_title")

\* C8: every emitted asset with targeting key K carries K:<bid id> when its sendId flag
\* is true, and its real resolved value when the flag is absent or false.
C8_PlaceholderIffSendId ==
  Returned =>
    \A asset \in ResponseAssets :
      Emitted_(asset) =>
        LET K == KeyOf(asset).v
            sendId == FlagOf(asset, "sendId")
        IN  /\ sendId = Bool(TRUE)
                 => Get(ret.val, K) = Str(K \o ":" \o Get(bid, "adId").v)
            /\ sendId \in {Undefined, Bool(FALSE)}
                 => Get(ret.val, K) = ResolvedValue(asset)

\* C8 witness: title went out as its placeholder and the vendor asset foo as its value
C8_Witness ==
  /\ Returned
  /\ Get(ret.val, "hb_native_title") = Str("hb_native_title:b1")
  /\ Get(ret.val, "hb_native_foo") = Str("F")

\* C9: the keys of the output are exactly the targeting keys of the response assets that
\* are not adTemplate, have a key-map entry and a non-empty resolved value, and whose
\* resolved sendTargetingKeys flag (top level, else ext, else the global default) is true.
C9_EmittedIffSendTargetingKeys ==
  Returned =>
    /\ KeySet(ret.val) = { KeyOf(asset).v : asset \in { a \in ResponseAssets : Emitted_(a) } }
    /\ ~HasOwn(ret.val, "hb_adTemplate")

\* C9 witness: under a global sendTargetingKeys = false, title was still emitted through
\* its own flag while another eligible asset was held back
C9_Witness ==
  /\ Returned
  /\ Get(TheParams, "sendTargetingKeys") = Bool(FALSE)
  /\ HasOwn(ret.val, "hb_native_title")
  /\ \E a \in ResponseAssets : Eligible(a) /\ ~SendsTargeting(a)
  /\ HasOwn(TheNative, "adTemplate")

Declared(name) == Truthy(deepAccess(TheAdUnit, <<"nativeParams", name>>))
FromAdUnit(name) == UrlOrScalar(Get(TheParams, name))

\* C10 as stated: after getNativeTargeting returns, each of rendererUrl and adTemplate
\* that the ad unit declares is on bid.native with the value resolved from the ad unit,
\* also when both are declared.
C10_AsStated ==
  Returned =>
    \A name \in {"rendererUrl", "adTemplate"} :
      Declared(name) => Get(TheNative, name) = FromAdUnit(name)

\* C10 amended: a declared rendererUrl is always copied; a declared adTemplate is
\* copied only when no rendererUrl is declared; when both are declared,
\* bid.native.adTemplate is left as the bid had it before the call.
C10_RendererUrlElseAdTemplate ==
  Returned =>
    /\ Declared("rendererUrl") => Get(TheNative, "rendererUrl") = FromAdUnit("rendererUrl")
    /\ (Declared("adTemplate") /\ ~Declared("rendererUrl"))
         => Get(TheNative, "adTemplate") = FromAdUnit("adTemplate")
    /\ (Declared("adTemplate") /\ Declared("rendererUrl"))
         => Get(TheNative, "adTemplate") = Get(Get(ret.arg, "native"), "adTemplate")

\* C10 witness: both were declared; the call copied rendererUrl and left the bid's own
\* adTemplate in place
C10_Witness ==
  /\ Returned
  /\ Declared("rendererUrl") /\ Declared("adTemplate")
  /\ Get(TheNative, "rendererUrl") = FromAdUnit("rendererUrl")
  /\ Get(TheNative, "adTemplate") = Str("BT")

====
